---- MODULE Spec2Model ----
(***************************************************************************)
(* git-changelog (src/src/cli.py): one run of main(), which reads the last *)
(* n commits with `git log`, keeps at most max_commits of them by a        *)
(* keyword/length score, posts one prompt to the generation endpoint and   *)
(* prints the answer.                                                      *)
(*                                                                         *)
(* A Python str is modelled as a sequence of one-character strings, so     *)
(* that len(), lower(), `in`, split(), strip() and join() are computed on  *)
(* characters as Python computes them.                                     *)
(***************************************************************************)
EXTENDS Integers, Sequences, FiniteSets, TLC

VARIABLES
  pc,              \* position of the run (or of the single call, in SpecSel)
  n,               \* args.n
  repo,            \* the commits of the checked-out branch, most recent first
  fetched,         \* what get_git_commits returned
  commits,         \* main's `commits` / the argument of preprocess_commits
  max_commits,     \* the max_commits argument of preprocess_commits
  scored_commits,  \* the (score, commit) tuples in the order they were appended
  selected,        \* what preprocess_commits returned
  raised,          \* the exception that left the run uncaught, or "none"
  requests,        \* number of requests.post calls issued
  response,        \* the response received from the endpoint, or NoResponse
  changelog,       \* what generate_changelog_with_claude returned
  exit_code,       \* process exit status; -1 while the process is running
  out,             \* the lines printed, as message tags, in order
  stages           \* the stages that have returned, in order

vars == << pc, n, repo, fetched, commits, max_commits, scored_commits, selected,
           raised, requests, response, changelog, exit_code, out, stages >>

----------------------------------------------------------------------------
(* Bounds of the model. *)

\* longest commit list handed to preprocess_commits in SpecSel
MaxLen == 3
\* largest max_commits handed to preprocess_commits in SpecSel
MaxCap == 3
\* most commits in a small repository of Spec
MaxRepo == 2

\* preprocess_commits(commits, max_commits=50)
DefaultMaxCommits == 50

----------------------------------------------------------------------------
(* Python str operations on sequences of characters. *)

NL == "\n"

Min(S) == CHOOSE x \in S : \A y \in S : x <= y
Max(S) == CHOOSE x \in S : \A y \in S : x >= y

UpperToLower ==
  ("A" :> "a") @@ ("B" :> "b") @@ ("C" :> "c") @@ ("D" :> "d") @@ ("E" :> "e") @@ ("F" :> "f") @@
  ("G" :> "g") @@ ("H" :> "h") @@ ("I" :> "i") @@ ("J" :> "j") @@ ("K" :> "k") @@ ("L" :> "l") @@
  ("M" :> "m") @@ ("N" :> "n") @@ ("O" :> "o") @@ ("P" :> "p") @@ ("Q" :> "q") @@ ("R" :> "r") @@
  ("S" :> "s") @@ ("T" :> "t") @@ ("U" :> "u") @@ ("V" :> "v") @@ ("W" :> "w") @@ ("X" :> "x") @@
  ("Y" :> "y") @@ ("Z" :> "z")

\* str.lower()
Lower(t) ==
  [i \in 1..Len(t) |-> IF t[i] \in DOMAIN UpperToLower THEN UpperToLower[t[i]] ELSE t[i]]

\* the positions at which `sub` occurs in t
Occurrences(sub, t) ==
  {i \in 1..(Len(t) - Len(sub) + 1) : SubSeq(t, i, i + Len(sub) - 1) = sub}

\* `sub in t`
Contains(sub, t) == Occurrences(sub, t) # {}

\* str.find(sub, start) with 1-based positions; 0 when there is none
Find(t, sub, start) ==
  LET hits == {i \in Occurrences(sub, t) : i >= start}
  IN  IF hits = {} THEN 0 ELSE Min(hits)

\* str.split(sep): cut at each occurrence of sep, left to right, not overlapping
RECURSIVE SplitFrom(_, _, _)
SplitFrom(t, sep, start) ==
  LET at == Find(t, sep, start)
  IN  IF at = 0
      THEN << SubSeq(t, start, Len(t)) >>
      ELSE << SubSeq(t, start, at - 1) >> \o SplitFrom(t, sep, at + Len(sep))

Split(t, sep) == SplitFrom(t, sep, 1)

Whitespace == {" ", "\n", "\t", "\r"}

\* str.strip()
Strip(t) ==
  LET keep == {i \in 1..Len(t) : t[i] \notin Whitespace}
  IN  IF keep = {} THEN << >> ELSE SubSeq(t, Min(keep), Max(keep))

\* sep.join(parts)
RECURSIVE Join(_, _)
Join(parts, sep) ==
  IF parts = << >> THEN << >>
  ELSE IF Len(parts) = 1 THEN parts[1]
  ELSE parts[1] \o sep \o Join(Tail(parts), sep)

\* list[:stop]
SliceTo(s, stop) ==
  IF stop >= 0
  THEN SubSeq(s, 1, IF stop < Len(s) THEN stop ELSE Len(s))
  ELSE SubSeq(s, 1, IF Len(s) + stop > 0 THEN Len(s) + stop ELSE 0)

Reverse(s) == [i \in 1..Len(s) |-> s[Len(s) + 1 - i]]

----------------------------------------------------------------------------
(* The Commit Selector: preprocess_commits. *)

keywords ==
  << <<"a","d","d">>,
     <<"a","d","d","e","d">>,
     <<"f","e","a","t","u","r","e">>,
     <<"f","e","a","t","u","r","e","d">>,
     <<"i","m","p","r","o","v","e">>,
     <<"i","m","p","r","o","v","e","d">>,
     <<"f","i","x">>,
     <<"f","i","x","e","d">>,
     <<"i","m","p","l","e","m","e","n","t">>,
     <<"i","m","p","l","e","m","e","n","t","e","d">>,
     <<"u","p","d","a","t","e">>,
     <<"u","p","d","a","t","e","d">>,
     <<"u","p","d","a","t","e","s">>,
     <<"s","u","p","p","o","r","t">>,
     <<"s","u","p","p","o","r","t","e","d">>,
     <<"r","e","f","a","c","t","o","r">>,
     <<"r","e","f","a","c","t","o","r","e","d">> >>

trivial ==
  << <<"t","y","p","o">>,
     <<"w","h","i","t","e","s","p","a","c","e">>,
     <<"c","o","m","m","e","n","t">>,
     <<"f","o","r","m","a","t","t","i","n","g">>,
     <<"f","o","r","m","a","t">>,
     <<"s","p","a","c","i","n","g">>,
     <<"l","i","n","t","i","n","g">> >>

\* lowered = (commit["subject"] + commit["body"]).lower()
lowered(commit) == Lower(commit.subject \o commit.body)

\* variant: 10 for every occurrence of a keyword
KeywordBonus_PerOccurrence(text) ==
  LET RECURSIVE Sum(_)
      Sum(i) == IF i = 0 THEN 0
                ELSE Sum(i - 1) + 10 * Cardinality(Occurrences(keywords[i], text))
  IN  Sum(Len(keywords))

\* for keyword in keywords: if keyword in lowered: score += 10
KeywordBonus(text) ==
  10 * Cardinality({i \in 1..Len(keywords) : Contains(keywords[i], text)})

\* variant: only the first four trivial words count
TrivialPenalty_FourWords(text) ==
  15 * Cardinality({i \in 1..4 : Contains(trivial[i], text)})

\* for word in trivial: if word in lowered: score -= 15
TrivialPenalty(text) ==
  15 * Cardinality({i \in 1..Len(trivial) : Contains(trivial[i], text)})

\* the score appended with the commit to scored_commits
Score(commit) ==
  Len(commit.subject \o commit.body)
    + KeywordBonus(lowered(commit)) - TrivialPenalty(lowered(commit))

\* scored_commits after the scoring loop: one (score, commit) tuple per commit
ScoreAll(cs) == [i \in 1..Len(cs) |-> << Score(cs[i]), cs[i] >>]

\* a < b on (score, commit) tuples: the first differing item decides, and the
\* commits are dicts, which know == but not <
TupleLt(a, b) ==
  IF a[1] # b[1] THEN (IF a[1] < b[1] THEN "true" ELSE "false")
  ELSE IF a[2] = b[2] THEN "false"
  ELSE "TypeError"

\* where x goes in the ascending list `sorted`, scanning from its right end:
\* after the last item that is not greater than x; -1 when a comparison raises
RECURSIVE InsertAfter(_, _, _)
InsertAfter(sorted, x, j) ==
  IF j = 0 THEN 0
  ELSE LET lt == TupleLt(x, sorted[j])
       IN  IF lt = "TypeError" THEN -1
           ELSE IF lt = "true" THEN InsertAfter(sorted, x, j - 1)
           ELSE j

\* a stable ascending sort by insertion; [raised, list]
RECURSIVE SortAscending(_, _)
SortAscending(s, k) ==
  IF k = 0 THEN [raised |-> FALSE, list |-> << >>]
  ELSE LET before == SortAscending(s, k - 1)
       IN  IF before.raised THEN before
           ELSE LET j == InsertAfter(before.list, s[k], Len(before.list))
                IN  IF j = -1 THEN [raised |-> TRUE, list |-> << >>]
                    ELSE [raised |-> FALSE,
                          list |-> SubSeq(before.list, 1, j) \o << s[k] >>
                                     \o SubSeq(before.list, j + 1, Len(before.list))]

\* list.sort(reverse=True): reverse, sort ascending and stable, reverse again.
\* Which pairs a sort compares is the interpreter's choice, but every
\* comparison sort compares the pairs that end up adjacent, so each of them
\* raises exactly when two tuples tie on the score and differ in the commit.
SortReverse(s) ==
  LET r == SortAscending(Reverse(s), Len(s))
  IN  [raised |-> r.raised, list |-> Reverse(r.list)]

\* variant: a list exactly at the limit is scored too
OverLimit_OrEqual(cs, max) == Len(cs) >= max

\* if len(commits) > max_commits
OverLimit(cs, max) == Len(cs) > max

\* preprocess_commits(commits, max_commits):
\* [raised, scored (the tuples as appended), result (the list returned)]
preprocess_commits(cs, max) ==
  IF OverLimit(cs, max)
  THEN LET scored == ScoreAll(cs)
           sorted == SortReverse(scored)
       IN  IF sorted.raised
           THEN [raised |-> TRUE, scored |-> scored, result |-> << >>]
           ELSE [raised |-> FALSE, scored |-> scored,
                 result |-> [i \in 1..Len(SliceTo(sorted.list, max)) |->
                               SliceTo(sorted.list, max)[i][2]]]
  ELSE [raised |-> FALSE, scored |-> << >>, result |-> cs]

----------------------------------------------------------------------------
(* The History Reader: get_git_commits. *)

sentinel == <<"-","-","-","-","-","-","-","-","-","-">>

\* format_string = "%H%n%an%n%ad%n%s%n%b%n----------", one commit as git prints it
format_string(c) ==
  c.hash \o <<NL>> \o c.author \o <<NL>> \o c.date \o <<NL>> \o c.subject
    \o <<NL>> \o c.body \o <<NL>> \o sentinel

\* stdout of `git log -<n> --pretty=format:<format_string>` when it exits 0: the
\* n most recent commits (all of them when there are fewer), a newline between
\* two commits
git_log(k, r) ==
  LET shown == SubSeq(r, 1, IF k < Len(r) THEN k ELSE Len(r))
  IN  Join([i \in 1..Len(shown) |-> format_string(shown[i])], <<NL>>)

\* `git log -<n>` exits 0: "-0" shows nothing, a negative n makes the argument
\* "--<k>", an option git does not know
git_log_accepts(k) == k >= 0

\* if len(lines) >= 4
EnoughLines(lines) == Len(lines) >= 4

\* the commits parsed from the raw records, in their order
RECURSIVE ParseCommits(_)
ParseCommits(commits_raw) ==
  IF commits_raw = << >> THEN << >>
  ELSE LET lines == Split(Strip(Head(commits_raw)), <<NL>>)
           rest  == ParseCommits(Tail(commits_raw))
       IN  IF EnoughLines(lines)
           THEN << [hash    |-> lines[1],
                    author  |-> lines[2],
                    date    |-> lines[3],
                    subject |-> lines[4],
                    body    |-> IF Len(lines) > 4
                                THEN Join(SubSeq(lines, 5, Len(lines)), <<NL>>)
                                ELSE << >>] >> \o rest
           ELSE rest

\* commits_raw = result.stdout.split("----------")[:-1]
commits_raw(stdout) == SliceTo(Split(stdout, sentinel), -1)

\* what get_git_commits returns for the text git printed
get_git_commits(stdout) == ParseCommits(commits_raw(stdout))

----------------------------------------------------------------------------
(* Inputs. *)

Commit(h, s, b) ==
  [hash |-> h, author |-> <<"A">>, date |-> <<"D">>, subject |-> s, body |-> b]

txt_fix == <<"f","i","x">>
txt_fix3 == <<"f","i","x"," ","f","i","x"," ","f","i","x">>
txt_all_trivial ==
  <<"t","y","p","o"," ","w","h","i","t","e","s","p","a","c","e"," ",
    "c","o","m","m","e","n","t"," ","f","o","r","m","a","t","t","i","n","g"," ",
    "s","p","a","c","i","n","g"," ","l","i","n","t","i","n","g">>
txt_Fix_typo == <<"F","i","x"," ","t","y","p","o">>
txt_add_export ==
  <<"A","d","d"," ","n","e","w"," ","e","x","p","o","r","t"," ",
    "f","e","a","t","u","r","e">>
txt_csv ==
  <<"I","m","p","l","e","m","e","n","t","s"," ","C","S","V"," ",
    "e","x","p","o","r","t">>
txt_sentinel_body == sentinel \o <<NL,"a",NL,"b",NL,"c",NL,"d">>

\* the commit records preprocess_commits is called on in SpecSel: a keyword
\* once and three times, every trivial word, mixed case, and two commits
\* ("x", "y") whose scores tie
SelCommits ==
  { Commit(<<"1">>, txt_fix, << >>),
    Commit(<<"2">>, txt_fix3, << >>),
    Commit(<<"3">>, txt_all_trivial, << >>),
    Commit(<<"4">>, txt_Fix_typo, <<"o","k">>),
    Commit(<<"5">>, <<"x">>, << >>),
    Commit(<<"6">>, <<"y">>, << >>) }

\* the commits of the small repositories of Spec: two ordinary ones, one with
\* an empty message, two whose bodies quote the same text with a sentinel line
RepoCommits ==
  { Commit(<<"a","1">>, txt_Fix_typo, << >>),
    Commit(<<"b","2">>, txt_add_export, txt_csv),
    Commit(<<"c","3">>, << >>, << >>),
    Commit(<<"d","4">>, <<"s">>, txt_sentinel_body),
    Commit(<<"e","5">>, <<"t">>, txt_sentinel_body) }

Digits == <<"0","1","2","3","4","5","6","7","8","9">>

\* a repository of k commits whose subjects are all "x" (tie) or "x" i times
LongRepo(k, tie) ==
  [i \in 1..k |->
     Commit(<< Digits[(i \div 10) + 1], Digits[(i % 10) + 1] >>,
            IF tie THEN <<"x">> ELSE [j \in 1..i |-> "x"],
            << >>)]

\* the small repositories; a repository holds each commit once
SmallRepos ==
  { r \in UNION { [1..k -> RepoCommits] : k \in 1..MaxRepo } :
      \A i, j \in 1..Len(r) : i # j => r[i] # r[j] }

\* the repositories with one commit more than preprocess_commits keeps
LongRepos ==
  { LongRepo(DefaultMaxCommits + 1, TRUE), LongRepo(DefaultMaxCommits + 1, FALSE) }

Ns == {-1, 0, 1, MaxRepo, DefaultMaxCommits + 1}

\* status codes the endpoint may answer with
Statuses == {200, 404, 500, 600}

\* what the body of the answer holds
Bodies == {"not_json", "object_without_content", "content_with_text",
           "content_empty_list"}

NoResponse == [status |-> 0, body |-> "none"]

----------------------------------------------------------------------------
(* One call of preprocess_commits on any list and any max_commits. *)

InitSel ==
  /\ pc = "call"
  /\ commits \in UNION { [1..k -> SelCommits] : k \in 0..MaxLen }
  /\ max_commits \in 0..MaxCap
  /\ n = 0
  /\ repo = << >>
  /\ fetched = << >>
  /\ scored_commits = << >>
  /\ selected = << >>
  /\ raised = "none"
  /\ requests = 0
  /\ response = NoResponse
  /\ changelog = "none"
  /\ exit_code = -1
  /\ out = << >>
  /\ stages = << >>

Call ==
  /\ pc = "call"
  /\ LET r == preprocess_commits(commits, max_commits)
     IN  /\ scored_commits' = r.scored
         /\ selected' = r.result
         /\ raised' = IF r.raised THEN "TypeError" ELSE "none"
         /\ pc' = IF r.raised THEN "raised" ELSE "returned"
  /\ UNCHANGED << n, repo, fetched, commits, max_commits, requests, response,
                  changelog, exit_code, out, stages >>

NextSel == Call

SpecSel == InitSel /\ [][NextSel]_vars

----------------------------------------------------------------------------
(* One run of main(). *)

Init ==
  /\ pc = "main"
  /\ n \in Ns
  /\ \E long \in BOOLEAN : repo \in IF long THEN LongRepos ELSE SmallRepos
  /\ max_commits = DefaultMaxCommits
  /\ fetched = << >>
  /\ commits = << >>
  /\ scored_commits = << >>
  /\ selected = << >>
  /\ raised = "none"
  /\ requests = 0
  /\ response = NoResponse
  /\ changelog = "none"
  /\ exit_code = -1
  /\ out = << >>
  /\ stages = << >>

\* sys.exit(code), or an exception nothing catches (the interpreter prints the
\* traceback and exits with status 1)
Exit(code, printed, exception) ==
  /\ pc' = "done"
  /\ exit_code' = code
  /\ out' = out \o printed
  /\ raised' = exception

\* get_git_commits: `git rev-parse --is-inside-work-tree` exits non-zero
NotARepository ==
  /\ pc = "main"
  /\ Exit(1, << "Fetching the last n commits...", "Error: Not a git repository." >>,
          "none")
  /\ UNCHANGED << n, repo, fetched, commits, max_commits, scored_commits,
                  selected, requests, response, changelog, stages >>

\* get_git_commits: `git log` exits non-zero
RetrievalError ==
  /\ pc = "main"
  /\ Exit(1, << "Fetching the last n commits...", "Error fetching git commits" >>,
          "none")
  /\ UNCHANGED << n, repo, fetched, commits, max_commits, scored_commits,
                  selected, requests, response, changelog, stages >>

\* commits = get_git_commits(args.n), both git commands exiting 0
Reader ==
  /\ pc = "main"
  /\ git_log_accepts(n)
  /\ fetched' = get_git_commits(git_log(n, repo))
  /\ commits' = fetched'
  /\ out' = out \o << "Fetching the last n commits..." >>
  /\ stages' = stages \o << "Reader" >>
  /\ pc' = "read"
  /\ UNCHANGED << n, repo, max_commits, scored_commits, selected, raised,
                  requests, response, changelog, exit_code >>

\* variant: the empty list is not told apart
NoCommits_Never(cs) == FALSE

\* if not commits
NoCommits(cs) == cs = << >>

\* if not commits: print("No commits found."); sys.exit(0)
NoCommitsFound ==
  /\ pc = "read"
  /\ NoCommits(commits)
  /\ Exit(0, << "No commits found." >>, "none")
  /\ UNCHANGED << n, repo, fetched, commits, max_commits, scored_commits,
                  selected, requests, response, changelog, stages >>

\* print("Found ..."); commits = preprocess_commits(commits)
Selector ==
  /\ pc = "read"
  /\ ~NoCommits(commits)
  /\ LET r == preprocess_commits(commits, max_commits)
     IN  /\ scored_commits' = r.scored
         /\ selected' = r.result
         /\ IF r.raised
            THEN /\ Exit(1, << "Found k commits. Generating changelog..." >>,
                         "TypeError")
                 /\ UNCHANGED << commits, stages >>
            ELSE /\ commits' = r.result
                 /\ out' = out \o << "Found k commits. Generating changelog..." >>
                 /\ stages' = stages \o << "Selector" >>
                 /\ pc' = "selected"
                 /\ UNCHANGED << raised, exit_code >>
  /\ UNCHANGED << n, repo, fetched, max_commits, requests, response, changelog >>

\* generate_changelog_with_claude: requests.post raises a RequestException
\* (no connection, timeout, no endpoint configured)
TransportFailure ==
  /\ pc = "selected"
  /\ requests' = requests + 1
  /\ Exit(1, << "Error calling Claude API" >>, "none")
  /\ UNCHANGED << n, repo, fetched, commits, max_commits, scored_commits,
                  selected, response, changelog, stages >>

\* if response.status_code >= 400
ErrorStatus(status) == status >= 400

\* Response.raise_for_status() raises HTTPError: a 4xx or a 5xx status
raise_for_status(status) == 400 <= status /\ status < 600

\* generate_changelog_with_claude, requests.post having returned a response
Requester ==
  /\ pc = "selected"
  /\ requests' = requests + 1
  /\ \E status \in Statuses, body \in Bodies, json_error_is_request_exception \in BOOLEAN :
       LET shown == IF ErrorStatus(status) THEN << "Error response body" >> ELSE << >>
       IN  /\ response' = [status |-> status, body |-> body]
           /\ IF ErrorStatus(status) /\ raise_for_status(status)
              THEN \* HTTPError, caught; e.response is falsy for an error status
                   /\ Exit(1, shown \o << "Error calling Claude API" >>, "none")
                   /\ UNCHANGED << changelog, stages >>
              ELSE IF body = "not_json"
              THEN \* response.json() raises: a RequestException from requests
                   \* 2.27 on (caught), a plain ValueError before (uncaught)
                   /\ IF json_error_is_request_exception
                      THEN Exit(1, shown \o << "Error calling Claude API" >>, "none")
                      ELSE Exit(1, shown, "ValueError")
                   /\ UNCHANGED << changelog, stages >>
              ELSE IF body = "object_without_content"
              THEN /\ Exit(1, shown \o << "Unexpected API response format.",
                                          "Response dump" >>, "none")
                   /\ UNCHANGED << changelog, stages >>
              ELSE IF body = "content_empty_list"
              THEN \* result["content"][0] raises IndexError, which nothing catches
                   /\ Exit(1, shown, "IndexError")
                   /\ UNCHANGED << changelog, stages >>
              ELSE /\ changelog' = "text"
                   /\ out' = out \o shown
                   /\ stages' = stages \o << "Requester" >>
                   /\ pc' = "generated"
                   /\ UNCHANGED << raised, exit_code >>
  /\ UNCHANGED << n, repo, fetched, commits, max_commits, scored_commits, selected >>

\* print("\n===== CHANGELOG =====\n"); print(changelog); main returns
PrintChangelog ==
  /\ pc = "generated"
  /\ stages' = stages \o << "print" >>
  /\ Exit(0, << "===== CHANGELOG =====", "changelog" >>, "none")
  /\ UNCHANGED << n, repo, fetched, commits, max_commits, scored_commits,
                  selected, requests, response, changelog >>

Next ==
  \/ NotARepository
  \/ RetrievalError
  \/ Reader
  \/ NoCommitsFound
  \/ Selector
  \/ TransportFailure
  \/ Requester
  \/ PrintChangelog

Spec == Init /\ [][Next]_vars

----------------------------------------------------------------------------
(* Vocabulary of the properties. *)

\* how often c occurs in the list s
Count(c, s) == Cardinality({i \in 1..Len(s) : s[i] = c})

Elements(s) == {s[i] : i \in 1..Len(s)}

\* the words of list `words` that occur in the text
WordsIn(words, text) == {i \in 1..Len(words) : Contains(words[i], text)}

\* len(commit["subject"] + commit["body"])
BaseScore(commit) == Len(commit.subject \o commit.body)

\* the call of preprocess_commits in SpecSel is over
CallOver == pc \in {"returned", "raised"}

IsPrefix(s, t) == Len(s) <= Len(t) /\ s = SubSeq(t, 1, Len(s))

----------------------------------------------------------------------------
(* Properties of the Commit Selector, under SpecSel. *)

\* C1: preprocess_commits is total: on every list of commit records and every
\* max_commits the call returns a list and raises nothing.
C1_SelectorNeverRaises == pc # "raised" /\ raised = "none"

\* C3: on a list of more than max_commits records the call returns exactly
\* max_commits records, and each record returned scores at least as high as
\* each record left out.
C3_ReturnsTopMaxCommits ==
  (CallOver /\ Len(commits) > max_commits) =>
     /\ pc = "returned"
     /\ Len(selected) = max_commits
     /\ \A c \in Elements(commits) : Count(c, selected) <= Count(c, commits)
     /\ \A r \in Elements(selected), c \in Elements(commits) :
          Count(c, selected) < Count(c, commits) => Score(r) >= Score(c)

\* C4: on a list of at most max_commits records the call returns the same
\* records in the same order and computes no score.
C4_ShortListPassesThrough ==
  (CallOver /\ Len(commits) <= max_commits) =>
     /\ pc = "returned"
     /\ selected = commits
     /\ scored_commits = << >>

\* C4 witness: a list exactly at the limit, not in score order, was returned.
C4_Witness ==
  /\ pc = "returned"
  /\ Len(commits) = max_commits
  /\ Len(commits) >= 2
  /\ Score(commits[1]) < Score(commits[2])
  /\ selected = commits

\* C8: the bonus (score minus the length of subject+body) depends only on
\* which keywords occur in the text, not on how often: two scored commits in
\* which the same words occur get the same bonus, in particular when a
\* keyword occurs once in the one and three times in the other.
C8_BonusIgnoresRepetition ==
  \A i, j \in 1..Len(scored_commits) :
     LET a == scored_commits[i]
         b == scored_commits[j]
     IN  (/\ WordsIn(keywords, lowered(a[2])) = WordsIn(keywords, lowered(b[2]))
          /\ WordsIn(trivial, lowered(a[2])) = WordsIn(trivial, lowered(b[2])))
           => a[1] - BaseScore(a[2]) = b[1] - BaseScore(b[2])

\* C8 witness: two commits were scored, a keyword occurring once in the first
\* and three times in the second, the same words occurring in both.
C8_Witness ==
  \E i, j \in 1..Len(scored_commits), k \in 1..Len(keywords) :
     LET ta == lowered(scored_commits[i][2])
         tb == lowered(scored_commits[j][2])
     IN  /\ Cardinality(Occurrences(keywords[k], ta)) = 1
         /\ Cardinality(Occurrences(keywords[k], tb)) = 3
         /\ WordsIn(keywords, ta) = WordsIn(keywords, tb)
         /\ WordsIn(trivial, ta) = WordsIn(trivial, tb)

\* a scored commit in whose text every trivial word and no keyword occurs
EveryTrivialWord(commit) ==
  /\ WordsIn(trivial, lowered(commit)) = 1..Len(trivial)
  /\ WordsIn(keywords, lowered(commit)) = {}

\* C9 as stated: a record in whose text all the trivial keywords occur (and no
\* significance keyword) scores the base score minus 4 x 15.
C9_AllTrivialCostsSixty ==
  \A i \in 1..Len(scored_commits) :
     EveryTrivialWord(scored_commits[i][2]) =>
        scored_commits[i][1] = BaseScore(scored_commits[i][2]) - 4 * 15

\* C9 amended: the trivial keywords are seven (typo, whitespace, comment,
\* formatting, format, spacing, linting); a record in whose text all seven
\* occur (and no significance keyword) scores the base score minus 7 x 15.
C9_AllTrivialCostsHundredFive ==
  \A i \in 1..Len(scored_commits) :
     EveryTrivialWord(scored_commits[i][2]) =>
        scored_commits[i][1] = BaseScore(scored_commits[i][2]) - 7 * 15

\* C9 witness: a record with every trivial word and no keyword was scored.
C9_Witness ==
  \E i \in 1..Len(scored_commits) : EveryTrivialWord(scored_commits[i][2])

----------------------------------------------------------------------------
(* Properties of a run of main(), under Spec. *)

Printed(line) == \E i \in 1..Len(out) : out[i] = line

ReaderReturned == Len(stages) >= 1 /\ stages[1] = "Reader"

\* the place of the commit with hash h in the repository (0: none has it)
PlaceInRepo(h) ==
  IF \E i \in 1..Len(repo) : repo[i].hash = h
  THEN CHOOSE i \in 1..Len(repo) : repo[i].hash = h
  ELSE 0

\* C2 as stated: whenever n <= 0, and whenever the History Reader yields zero
\* records, the run ends with exit code 0, has printed "No commits found." and
\* has issued no request.
C2_NonPositiveOrEmptyExitsZero ==
  (pc = "done" /\ (n <= 0 \/ (ReaderReturned /\ fetched = << >>))) =>
     /\ exit_code = 0
     /\ Printed("No commits found.")
     /\ requests = 0

\* C2 amended: whenever both git commands succeed and the History Reader
\* returns zero records (n = 0, or every record dropped), no request is ever
\* issued, and the run ends with exit code 0 having printed "No commits found.".
C2_EmptyHistoryExitsZero ==
  (ReaderReturned /\ fetched = << >>) =>
     /\ requests = 0
     /\ pc \in {"read", "done"}
     /\ pc = "done" => (exit_code = 0 /\ Printed("No commits found."))

\* C2 witness: a run with n = 0 inside a repository has ended.
C2_Witness ==
  /\ pc = "done"
  /\ n = 0
  /\ ReaderReturned
  /\ fetched = << >>

\* C5: for a positive n the History Reader returns at most n records, and they
\* are commits of the repository in the order git emitted them (most recent
\* first), whatever the commit bodies hold.
C5_AtMostNRecordsInOrder ==
  (ReaderReturned /\ n > 0) =>
     /\ Len(fetched) <= n
     /\ \A i \in 1..Len(fetched) :
          PlaceInRepo(fetched[i].hash) \in 1..n
     /\ \A i, j \in 1..Len(fetched) :
          i < j => PlaceInRepo(fetched[i].hash) < PlaceInRepo(fetched[j].hash)

\* C6: when the endpoint answers with a non-success status, the run prints the
\* response body, exits with code 1, prints no changelog and has issued one
\* request only.
C6_ErrorStatusIsFatal ==
  response.status >= 400 =>
     /\ Printed("Error response body")
     /\ pc = "done"
     /\ exit_code = 1
     /\ ~Printed("===== CHANGELOG =====")
     /\ requests = 1

\* the run ended on one of the four fatal conditions, having said which
FatalCondition ==
  \/ Printed("Error: Not a git repository.")
  \/ Printed("Error fetching git commits")
  \/ Printed("Error calling Claude API")
  \/ Printed("Unexpected API response format.")

\* C7: a run ends with exit code 0 after printing the changelog or after "No
\* commits found.", or with exit code 1 after one of the four fatal
\* conditions; never with the banner printed and exit code 1.
C7_ExitZeroOrFatalCondition ==
  pc = "done" =>
     /\ exit_code \in {0, 1}
     /\ exit_code = 0 =>
          /\ Printed("===== CHANGELOG =====") \/ Printed("No commits found.")
          /\ ~FatalCondition
     /\ exit_code = 1 =>
          /\ FatalCondition
          /\ raised = "none"
          /\ ~Printed("===== CHANGELOG =====")

\* C10: the stages return in the order Reader, Selector, Requester, print; at
\* most one request is issued, and only after Reader and Selector returned;
\* the banner is printed only after the request was answered with a success
\* status and the text was extracted from the answer.
C10_StagesInOrder ==
  /\ IsPrefix(stages, << "Reader", "Selector", "Requester", "print" >>)
  /\ requests <= 1
  /\ requests = 1 => IsPrefix(<< "Reader", "Selector" >>, stages)
  /\ Printed("===== CHANGELOG =====") =>
       /\ requests = 1
       /\ response.status \in 1..399
       /\ changelog # "none"

\* the run reached the Changelog Requester: Reader and Selector have returned
ReachedRequester == IsPrefix(<< "Reader", "Selector" >>, stages)

\* C11: the commit list the Changelog Requester receives has at least 1 and at
\* most 50 records, each of them a record the History Reader returned, and no
\* record twice.
C11_RequesterGetsDistinctRecords ==
  ReachedRequester =>
     /\ Len(commits) >= 1
     /\ Len(commits) <= DefaultMaxCommits
     /\ \A i \in 1..Len(commits) : commits[i] \in Elements(fetched)
     /\ \A i, j \in 1..Len(commits) : i # j => commits[i] # commits[j]

\* What holds of the list in every run: between 1 and 50 records, and no
\* record more often than the History Reader returned it.
RequesterGetsSubListOfFetched ==
  ReachedRequester =>
     /\ Len(commits) >= 1
     /\ Len(commits) <= DefaultMaxCommits
     /\ \A c \in Elements(commits) : Count(c, commits) <= Count(c, fetched)

====
